---- MODULE Spec2Model ----
(***************************************************************************)
(* Model of src/main.py: the Streamlit quota-verification script.  Every   *)
(* user interaction re-executes the whole script against the SQLite        *)
(* tables `deliveries` and `approvals`; one action of the model is one     *)
(* execution of the script.                                                *)
(*                                                                         *)
(* Numbers are whole kilograms and whole hectares (the REAL columns and    *)
(* the float division are modelled exactly on these values).  A farmer id  *)
(* is a sequence of characters, so that lower-casing and trimming are      *)
(* computed rather than assumed.                                           *)
(***************************************************************************)
EXTENDS Integers, Sequences, FiniteSets, Bags, TLC

VARIABLES
    deliveries,       \* table deliveries: a bag of rows
    approvals,        \* table approvals: rows in insertion order
    delivery_file,    \* the file held by the upload widget
    exporter_name,    \* the text held by the exporter widget
    trigger,          \* what started the last execution of the script
    before,           \* the two tables as the last execution found them
    outcome,          \* how the last execution of the script ended
    stage,            \* stages the last execution went through, in order
    delivery_df,      \* normalised, deduplicated batch of the last execution
    total_df,         \* result of the SUM ... GROUP BY farmer_id query
    merged_df,        \* the quota overview of the last execution
    unknown_farmers,  \* farmer ids of the batch missing from the register
    exceeded_df,      \* rows of merged_df with quota_used_pct > 100
    password,         \* admin panel: the password typed for the last execution
    wipe_password,    \* admin panel: the special password typed for it
    uploads           \* number of times the user changed a widget

vars == << deliveries, approvals, delivery_file, exporter_name, trigger, before,
           outcome, stage, delivery_df, total_df, merged_df, unknown_farmers, exceeded_df,
           password, wipe_password, uploads >>

----------------------------------------------------------------------------
(* Bounds of the model. *)

MaxBatch == 2
MaxUploads == 2
MaxApprovals == 2

(* Program constant. *)
QUOTA_PER_HA == 800

----------------------------------------------------------------------------
(* Generic helpers. *)

RECURSIVE SeqSum(_)
SeqSum(s) == IF s = << >> THEN 0 ELSE Head(s) + SeqSum(Tail(s))

RECURSIVE SetSum(_, _)
SetSum(S, f) ==
    IF S = {} THEN 0
    ELSE LET x == CHOOSE y \in S : TRUE IN f[x] + SetSum(S \ {x}, f)

Range(s) == {s[i] : i \in 1..Len(s)}

SelectIdx(s, idx) ==
    LET RECURSIVE Build(_)
        Build(k) == IF k > Len(s) THEN << >>
                    ELSE IF k \in idx THEN << s[k] >> \o Build(k + 1)
                    ELSE Build(k + 1)
    IN Build(1)

----------------------------------------------------------------------------
(* Text normalisation of farmer ids: .str.lower().str.strip() *)

LowerChar(c) ==
    CASE c = "A" -> "a"
      [] c = "B" -> "b"
      [] c = "Z" -> "z"
      [] OTHER -> c

IsSpace(c) == c = " "

StrLower(s) == [i \in 1..Len(s) |-> LowerChar(s[i])]

RECURSIVE LStrip(_)
LStrip(s) == IF s # << >> /\ IsSpace(Head(s)) THEN LStrip(Tail(s)) ELSE s

RECURSIVE RStrip(_)
RStrip(s) ==
    IF s # << >> /\ IsSpace(s[Len(s)]) THEN RStrip(SubSeq(s, 1, Len(s) - 1)) ELSE s

StrStrip(s) == RStrip(LStrip(s))

(* Variant: the ids are trimmed but not lower-cased. *)
NormalizeFarmerId_NoLower(s) == StrStrip(s)

NormalizeFarmerId(s) == StrStrip(StrLower(s))

----------------------------------------------------------------------------
(* The static farmer register (farmer_database.xlsx) as read by the script: *)
(* raw ids, areas in hectares.                                              *)

farmers_raw ==
    << [farmer_id |-> << "A" >>,      area_ha |-> 1],
       [farmer_id |-> << "b", " " >>, area_ha |-> 0] >>

(* Lines 196-197: normalise the register ids and add max_quota_kg. *)
farmers_df ==
    [i \in 1..Len(farmers_raw) |->
        [farmer_id    |-> NormalizeFarmerId(farmers_raw[i].farmer_id),
         area_ha      |-> farmers_raw[i].area_ha,
         max_quota_kg |-> farmers_raw[i].area_ha * QUOTA_PER_HA]]

----------------------------------------------------------------------------
(* Inputs of the user. *)

(* Spreadsheet rows the user may put in a delivery file: raw farmer id,    *)
(* net weight, lot cell (0 stands for a zero or empty-text lot cell).      *)
RawRows ==
    { [farmer_id |-> << "a" >>,      poids_net |-> 640, lot |-> 1],
      [farmer_id |-> << " ", "A" >>, poids_net |-> 800, lot |-> 1],
      [farmer_id |-> << "b" >>,      poids_net |-> 0,   lot |-> 2],
      [farmer_id |-> << "B" >>,      poids_net |-> 640, lot |-> 1],
      [farmer_id |-> << "z" >>,      poids_net |-> 160, lot |-> 0] }

(* Sheets of at most MaxBatch rows, no row copied twice. *)
RowSeqs ==
    UNION {{r \in [1..n -> RawRows] : \A i, j \in 1..n : r[i] = r[j] => i = j} : n \in 0..MaxBatch}

FullHeader == {"Farmer_ID", "Poids Net", "Lot"}

(* Headers lacking one of the required columns. *)
BadHeaders == {FullHeader \ {c} : c \in FullHeader}

NoFile == [columns |-> {}, rows |-> << >>, present |-> FALSE]

(* The row of the sheets whose content does not matter. *)
SampleRow == CHOOSE r \in RawRows : r.farmer_id = << "a" >>

Files ==
    {[columns |-> FullHeader, rows |-> r, present |-> TRUE] : r \in RowSeqs}
    \cup {[columns |-> h, rows |-> << SampleRow >>, present |-> TRUE] : h \in BadHeaders}

(* What the user may put in the two widgets: any sheet for the first       *)
(* exporter, the sheets of at most one row for the second, and the cases   *)
(* where the file or the exporter name is missing.                         *)
Inputs ==
    (Files \X {"e1"})
    \cup ({f \in Files : Len(f.rows) <= 1 /\ f.columns = FullHeader} \X {"e2"})
    \cup {<< NoFile, "e1" >>}
    \cup {<< [columns |-> FullHeader, rows |-> << SampleRow >>, present |-> TRUE], "" >>}

(* What the user may type in the two password fields of the admin panel;   *)
(* the second field is rendered only when the first holds "123" (line 265). *)
AdminSecrets == {"", "123", "321"}

AdminInputs == {w \in AdminSecrets \X AdminSecrets : w[1] # "123" => w[2] = ""}

(* The texts that open the two gates, lines 265 and 269. *)
AdminPassword == "123"

WipePassword == "321"

----------------------------------------------------------------------------
(* Column handling, lines 160-173. *)

(* delivery_df.columns.str.lower() on the header spellings of the model. *)
LowerHeaderName(c) ==
    CASE c = "Farmer_ID" -> "farmer_id"
      [] c = "Poids Net" -> "poids net"
      [] c = "Lot"       -> "lot"
      [] OTHER -> c

(* The rename of line 163. *)
RenameColumn(c) ==
    CASE c = "farmer_id" -> "coode producteur"
      [] c = "n du lot"  -> "lot"
      [] OTHER -> c

(* Variant: the check forgets the lot column. *)
RequiredColumns_NoLot == {"coode producteur", "poids net"}

RequiredColumns == {"coode producteur", "poids net", "lot"}

ColumnsAfterRename(f) == {RenameColumn(LowerHeaderName(c)) : c \in f.columns}

HasRequiredColumns(f) == RequiredColumns \subseteq ColumnsAfterRename(f)

----------------------------------------------------------------------------
(* The deliveries table.  A row is [lot_number, exporter_name, farmer_id,  *)
(* delivered_kg]; the table is a bag of rows (row |-> number of copies).   *)

EmptyTable == << >>

InsertRow(t, r) ==
    IF r \in DOMAIN t THEN [t EXCEPT ![r] = @ + 1] ELSE t @@ (r :> 1)

DeleteWhere(t, matched) == [r \in (DOMAIN t) \ matched |-> t[r]]

(* init_db: PRIMARY KEY (lot_number, exporter_name, farmer_id). *)
PrimaryKey(r) == << r.lot_number, r.exporter_name, r.farmer_id >>

(* Variant: the table is created without the PRIMARY KEY clause. *)
SamePrimaryKey_NoKey(r, q) == FALSE

SamePrimaryKey(r, q) == PrimaryKey(r) = PrimaryKey(q)

(* delete_existing_delivery(lot_number, exporter_name): replaceScope. *)
delete_existing_delivery(t, lot_number, exporter) ==
    DeleteWhere(t, {r \in DOMAIN t : r.lot_number = lot_number /\ r.exporter_name = exporter})

(* save_delivery_to_db(df): upsertDeliveries, row by row in input order;   *)
(* a row replaces the stored row its primary key conflicts with.           *)
RECURSIVE save_delivery_to_db(_, _)
save_delivery_to_db(t, df) ==
    IF df = << >> THEN t
    ELSE LET r == Head(df)
             cleared == DeleteWhere(t, {q \in DOMAIN t : SamePrimaryKey(q, r)})
         IN save_delivery_to_db(InsertRow(cleared, r), Tail(df))

(* Variant: the query selects delivered_kg without SUM, so each group      *)
(* yields the value of one of its rows.                                    *)
SumByFarmer_NoSum(t) ==
    LET ids == {r.farmer_id : r \in DOMAIN t}
    IN [id \in ids |-> (CHOOSE r \in DOMAIN t : r.farmer_id = id).delivered_kg]

(* SELECT farmer_id, SUM(delivered_kg) FROM deliveries GROUP BY farmer_id  *)
SumByFarmer(t) ==
    LET ids == {r.farmer_id : r \in DOMAIN t}
    IN [id \in ids |->
          SetSum({r \in DOMAIN t : r.farmer_id = id},
                 [r \in DOMAIN t |-> r.delivered_kg * t[r]])]

(* save_approval_to_db(lot_numbers_str, exporter_name, file_name) *)
save_approval_to_db(log, lot_numbers, exporter, file_name) ==
    Append(log, [lot_number    |-> lot_numbers,
                 exporter_name |-> exporter,
                 approved_by   |-> "CloudIA",
                 file_name     |-> file_name])

----------------------------------------------------------------------------
(* Normalisation of the batch, lines 169-187. *)

(* Lines 169-173 and 185-186: canonical column names, exporter column,     *)
(* canonical farmer ids.                                                    *)
StandardizeRows(f, exporter) ==
    [i \in 1..Len(f.rows) |->
        [lot_number    |-> f.rows[i].lot,
         exporter_name |-> exporter,
         farmer_id     |-> NormalizeFarmerId(f.rows[i].farmer_id),
         delivered_kg  |-> f.rows[i].poids_net]]

(* The subset of line 187. *)
DedupKey(r) == << r.lot_number, r.exporter_name, r.farmer_id >>

(* Variant: keep='first'. *)
DropDuplicates_KeepFirst(df) ==
    SelectIdx(df, {i \in 1..Len(df) : \A j \in 1..(i - 1) : DedupKey(df[j]) # DedupKey(df[i])})

(* drop_duplicates(subset=..., keep='last') *)
DropDuplicatesKeepLast(df) ==
    SelectIdx(df, {i \in 1..Len(df) : \A j \in (i + 1)..Len(df) : DedupKey(df[j]) # DedupKey(df[i])})

NormalizedBatch(f, exporter) == DropDuplicatesKeepLast(StandardizeRows(f, exporter))

(* Python truthiness of the lot cell and of the exporter text, lines 158, 191. *)
TruthyLot(v) == v # 0

TruthyText(t) == t # ""

(* Series.unique(): distinct values in order of first appearance. *)
Unique(s) == SelectIdx(s, {i \in 1..Len(s) : \A j \in 1..(i - 1) : s[j] # s[i]})

Column(df, field) == [i \in 1..Len(df) |-> df[i][field]]

----------------------------------------------------------------------------
(* Quota assessment, lines 199-213. *)

(* quota_used_pct = delivered_kg / max_quota_kg * 100 as the exact         *)
(* fraction num/den; den = 0 gives inf (num > 0) or NaN (num = 0).         *)
QuotaUsedPct(delivered_kg, max_quota_kg) ==
    [num |-> delivered_kg * 100, den |-> max_quota_kg]

(* x <= c for a float x: false for inf and for NaN. *)
PctLeq(x, c) == x.den > 0 /\ x.num <= c * x.den

(* Variant: a division by zero never counts as above the threshold. *)
PctGt_FiniteOnly(x, c) == x.den > 0 /\ x.num > c * x.den

(* x > c for a float x: true for inf, false for NaN. *)
PctGt(x, c) == IF x.den > 0 THEN x.num > c * x.den ELSE x.num > 0

(* Variant: strict comparisons in the lambda of line 209. *)
QuotaStatus_Strict(x) ==
    IF PctLeq(x, 80) /\ x.num # 80 * x.den THEN "OK"
    ELSE IF PctLeq(x, 100) /\ x.num # 100 * x.den THEN "Warning" ELSE "EXCEEDED"

(* The lambda of line 209. *)
QuotaStatus(x) ==
    IF PctLeq(x, 80) THEN "OK" ELSE IF PctLeq(x, 100) THEN "Warning" ELSE "EXCEEDED"

(* Line 204: register rows of the farmers named in the batch. *)
FilteredFarmers(df) ==
    LET ids == {df[i].farmer_id : i \in 1..Len(df)}
    IN SelectIdx(farmers_df, {i \in 1..Len(farmers_df) : farmers_df[i].farmer_id \in ids})

(* Lines 205-209: left merge with the totals, fillna(0), pct and status. *)
MergeWithTotals(filtered, totals) ==
    [i \in 1..Len(filtered) |->
        LET kg == IF filtered[i].farmer_id \in DOMAIN totals
                  THEN totals[filtered[i].farmer_id] ELSE 0
            pct == QuotaUsedPct(kg, filtered[i].max_quota_kg)
        IN [farmer_id      |-> filtered[i].farmer_id,
            area_ha        |-> filtered[i].area_ha,
            max_quota_kg   |-> filtered[i].max_quota_kg,
            delivered_kg   |-> kg,
            quota_used_pct |-> pct,
            quota_status   |-> QuotaStatus(pct)]]

(* Variant: the unknown ids are looked up in the merged frame, which holds *)
(* registered farmers only.                                                *)
UnknownFarmers_FromMerged(df) ==
    LET merged == FilteredFarmers(df)
        known == {farmers_df[i].farmer_id : i \in 1..Len(farmers_df)}
        ids == Column(merged, "farmer_id")
    IN Unique(SelectIdx(ids, {i \in 1..Len(ids) : ids[i] \notin known}))

(* Line 212. *)
UnknownFarmers(df) ==
    LET known == {farmers_df[i].farmer_id : i \in 1..Len(farmers_df)}
        ids == Column(df, "farmer_id")
    IN Unique(SelectIdx(ids, {i \in 1..Len(ids) : ids[i] \notin known}))

(* Line 213. *)
ExceededRows(merged) == SelectIdx(merged, {i \in 1..Len(merged) : PctGt(merged[i].quota_used_pct, 100)})

(* Variant: the gate tests the farmer ids only. *)
FileApproved_IdsOnly(unknown, exceeded) == Len(unknown) = 0

(* Lines 227-230. *)
FileApproved(unknown, exceeded) ==
    LET all_ids_valid == Len(unknown) = 0
        any_quota_exceeded == exceeded # << >>
    IN all_ids_valid /\ ~any_quota_exceeded

----------------------------------------------------------------------------
(* One execution of the script, lines 158-259: operators first.            *)

(* Lines 265-270: the clear button is rendered, and can be pressed, only   *)
(* when both password fields hold the expected values.                     *)
(* Variant: the second gate is missing. *)
ClearButtonShown_OneSecret(pw, wipe_pw) == pw = AdminPassword

ClearButtonShown(pw, wipe_pw) == pw = AdminPassword /\ wipe_pw = WipePassword

(* Lines 263-277: the admin panel, reached when the part of the script     *)
(* above it ended without a fault; t and log are the tables as that part   *)
(* left them, wipe tells whether the clear button was pressed.             *)
AdminPanel(t, log, wipe) ==
    /\ deliveries' = IF wipe THEN EmptyTable ELSE t
    /\ approvals' = IF wipe THEN << >> ELSE log

Ends(how, stages) ==
    /\ outcome' = how
    /\ stage' = stages
    /\ before' = [deliveries |-> deliveries, approvals |-> approvals]

NothingShown ==
    /\ total_df' = << >>
    /\ merged_df' = << >>
    /\ unknown_farmers' = << >>
    /\ exceeded_df' = << >>

(* Variant: the delete of line 192 takes every lot of the exporter. *)
PersistBatch_WholeExporter(t, df, exporter) ==
    save_delivery_to_db(DeleteWhere(t, {r \in DOMAIN t : r.exporter_name = exporter}), df)

(* Variant: the scope is deleted and the batch is not stored. *)
PersistBatch_DeleteOnly(t, df, exporter) ==
    delete_existing_delivery(t, df[1].lot_number, exporter)

(* Variant: the batch is saved without the delete of line 192. *)
PersistBatch_NoDelete(t, df, exporter) == save_delivery_to_db(t, df)

(* Lines 190-193: the scope is the lot of the first row; delete, then save. *)
PersistBatch(t, df, exporter) ==
    save_delivery_to_db(delete_existing_delivery(t, df[1].lot_number, exporter), df)

(* Variant: the new row replaces the log instead of being appended to it. *)
RecordApproval_Overwrite(log, df, exporter) ==
    LET lot_numbers == Unique(Column(df, "lot_number"))
    IN save_approval_to_db(<< >>, lot_numbers, exporter, << "approval", lot_numbers, exporter >>)

(* Lines 234-246 and 135-138. *)
RecordApproval(log, df, exporter) ==
    LET lot_numbers == Unique(Column(df, "lot_number"))
    IN save_approval_to_db(log, lot_numbers, exporter, << "approval", lot_numbers, exporter >>)

(* One execution of the script, lines 158-259.                             *)
(*   f, exporter : contents of the two widgets                             *)
(*   clicked     : st.button of line 233 returns True in this execution    *)
(*   fails       : the store fails, or the process stops, between the two  *)
(*                 store calls of lines 192 and 193                        *)
(*   wipe        : st.button of line 270 returns True in this execution    *)
(* Each intermediate frame is bound once (\E over a singleton), so that it *)
(* is computed once per execution, as in the script.                       *)
Script(f, exporter, clicked, fails, wipe) ==
    IF ~(f.present /\ TruthyText(exporter)) THEN
        \* line 259
        /\ Ends(IF wipe THEN "cleared" ELSE "missing_input", << >>)
        /\ NothingShown
        /\ delivery_df' = << >>
        /\ AdminPanel(deliveries, approvals, wipe)
    ELSE IF ~HasRequiredColumns(f) THEN
        \* line 166
        /\ Ends(IF wipe THEN "cleared" ELSE "schema_error", << "Received" >>)
        /\ NothingShown
        /\ delivery_df' = << >>
        /\ AdminPanel(deliveries, approvals, wipe)
    ELSE \E df \in {NormalizedBatch(f, exporter)} :
        IF df = << >> THEN
            \* line 190: iloc[0] of an empty frame raises IndexError
            /\ Ends("index_error", << "Received", "Normalized" >>)
            /\ NothingShown
            /\ delivery_df' = df
            /\ UNCHANGED << deliveries, approvals >>
        ELSE IF ~(TruthyLot(df[1].lot_number) /\ TruthyText(exporter)) THEN
            \* line 215: unknown_farmers was never bound, NameError
            /\ Ends("name_error", << "Received", "Normalized" >>)
            /\ NothingShown
            /\ delivery_df' = df
            /\ UNCHANGED << deliveries, approvals >>
        ELSE IF fails THEN
            \* line 192 committed, line 193 did not
            /\ Ends("store_error", << "Received", "Normalized" >>)
            /\ NothingShown
            /\ delivery_df' = df
            /\ deliveries' = delete_existing_delivery(deliveries, df[1].lot_number, exporter)
            /\ UNCHANGED approvals
        ELSE
            \E saved \in {PersistBatch(deliveries, df, exporter)} :
            \E totals \in {SumByFarmer(saved)} :
            \E merged \in {MergeWithTotals(FilteredFarmers(df), totals)} :
            \E unknown \in {UnknownFarmers(df)} :
            \E exceeded \in {ExceededRows(merged)} :
            \E approved \in {FileApproved(unknown, exceeded)} :
                /\ delivery_df' = df
                /\ total_df' = totals
                /\ merged_df' = merged
                /\ unknown_farmers' = unknown
                /\ exceeded_df' = exceeded
                /\ AdminPanel(saved,
                              IF approved /\ clicked
                              THEN RecordApproval(approvals, df, exporter)
                              ELSE approvals,
                              wipe)
                /\ Ends(IF wipe THEN "cleared"
                        ELSE IF approved THEN "approved" ELSE "rejected",
                        << "Received", "Normalized", "Persisted", "Assessed",
                           IF approved THEN "Approved" ELSE "Rejected" >>)

----------------------------------------------------------------------------
(* The state machine. *)

Init ==
    /\ deliveries = EmptyTable
    /\ approvals = << >>
    /\ delivery_file = NoFile
    /\ exporter_name = ""
    /\ trigger = "open"
    /\ before = [deliveries |-> EmptyTable, approvals |-> << >>]
    /\ outcome = "missing_input"
    /\ stage = << >>
    /\ delivery_df = << >>
    /\ total_df = << >>
    /\ merged_df = << >>
    /\ unknown_farmers = << >>
    /\ exceeded_df = << >>
    /\ password = ""
    /\ wipe_password = ""
    /\ uploads = 0

(* The user changes the widgets; the script runs on the new values. *)
Upload(f, exporter) ==
    /\ uploads < MaxUploads
    /\ << f, exporter >> # << delivery_file, exporter_name >>
    /\ delivery_file' = f
    /\ exporter_name' = exporter
    /\ trigger' = "upload"
    /\ uploads' = uploads + 1
    /\ password' = ""
    /\ wipe_password' = ""
    /\ Script(f, exporter, FALSE, FALSE, FALSE)

(* Any other interaction re-executes the script on the same widgets: the   *)
(* same batch is submitted again.                                          *)
Rerun ==
    /\ trigger' = "rerun"
    /\ UNCHANGED << delivery_file, exporter_name, uploads >>
    /\ password' = ""
    /\ wipe_password' = ""
    /\ Script(delivery_file, exporter_name, FALSE, FALSE, FALSE)

(* An execution in which the store fails, or the process stops, after the  *)
(* call of line 192 and before the call of line 193 has committed.  The    *)
(* model takes the failure on a re-execution of the current widgets.       *)
RunFails ==
    /\ trigger' = "rerun"
    /\ UNCHANGED << delivery_file, exporter_name, uploads >>
    /\ password' = ""
    /\ wipe_password' = ""
    /\ Script(delivery_file, exporter_name, FALSE, TRUE, FALSE)

(* The user presses "Generate Approval PDF", which the last execution      *)
(* rendered only in its approved branch (line 233).                        *)
ClickGenerate ==
    /\ stage # << >>
    /\ stage[Len(stage)] = "Approved"
    /\ Len(approvals) < MaxApprovals
    /\ trigger' = "button"
    /\ UNCHANGED << delivery_file, exporter_name, uploads >>
    /\ password' = ""
    /\ wipe_password' = ""
    /\ Script(delivery_file, exporter_name, TRUE, FALSE, FALSE)

(* The user opens the admin panel, which the last execution rendered       *)
(* unless it stopped on a fault, types pw and, when the second field shows, *)
(* wipe_pw; with press, the user also presses "Clear All Data", which is   *)
(* possible when that button shows.  The script runs on the unchanged      *)
(* upload widgets and then reaches line 263.                               *)
ClearAllData(pw, wipe_pw, press) ==
    /\ outcome \notin {"index_error", "name_error", "store_error"}
    /\ uploads < MaxUploads
    /\ trigger' = IF press THEN "clear_button" ELSE "admin"
    /\ uploads' = uploads + 1
    /\ UNCHANGED << delivery_file, exporter_name >>
    /\ password' = pw
    /\ wipe_password' = wipe_pw
    /\ Script(delivery_file, exporter_name, FALSE, FALSE,
              press /\ ClearButtonShown(pw, wipe_pw))

Next ==
    \/ \E w \in Inputs : Upload(w[1], w[2])
    \/ Rerun
    \/ RunFails
    \/ ClickGenerate
    \/ \E w \in AdminInputs, press \in BOOLEAN :
          (press => ClearButtonShown(w[1], w[2])) /\ ClearAllData(w[1], w[2], press)

Spec == Init /\ [][Next]_vars

----------------------------------------------------------------------------
(* Vocabulary of the properties. *)

(* Sum of delivered_kg over all the rows of a farmer in a table. *)
LedgerTotal(t, id) ==
    SetSum({r \in DOMAIN t : r.farmer_id = id}, [r \in DOMAIN t |-> r.delivered_kg * t[r]])

FarmerIds == {NormalizeFarmerId(r.farmer_id) : r \in RawRows}

RegisteredIds == {farmers_df[i].farmer_id : i \in 1..Len(farmers_df)}

(* The last execution persisted its batch and assessed it. *)
Persisted == outcome \in {"approved", "rejected"}

(* Rows of a table in the scope (lot, exporter). *)
ScopeRows(t, lot, exporter) ==
    {r \in DOMAIN t : r.lot_number = lot /\ r.exporter_name = exporter}

BatchLots == {delivery_df[i].lot_number : i \in 1..Len(delivery_df)}

(* The stored rows with the natural key k. *)
RowsWithKey(t, k) == {r \in DOMAIN t : << r.lot_number, r.exporter_name, r.farmer_id >> = k}

(* Number of stored copies of the rows with the natural key k. *)
CopiesWithKey(t, k) == SetSum(RowsWithKey(t, k), [r \in DOMAIN t |-> t[r]])

----------------------------------------------------------------------------
(* C1. Idempotent resubmission: when the script runs again on the same     *)
(* file and exporter name right after an execution on them (neither of the *)
(* two being cut short by a store failure or ending in the administrative *)
(* wipe), every farmer's ledger total is the same after the second         *)
(* execution as after the first.                                           *)
C1_IdempotentResubmission ==
    [][ ( /\ delivery_file' = delivery_file
          /\ exporter_name' = exporter_name
          /\ outcome \notin {"store_error", "cleared"}
          /\ outcome' \notin {"store_error", "cleared"} )
        => \A id \in FarmerIds : LedgerTotal(deliveries', id) = LedgerTotal(deliveries, id) ]_vars

(* A two-lot batch was resubmitted onto a ledger that holds other rows too. *)
C1_Witness ==
    /\ trigger = "rerun"
    /\ Persisted
    /\ Cardinality(BatchLots) = 2
    /\ before.deliveries = deliveries
    /\ \E r \in DOMAIN deliveries : r \notin Range(delivery_df)

(* C2. Full scope supersession: after an execution that persisted a batch, *)
(* for every lot number of the batch the stored rows of (lot, exporter) are *)
(* exactly the batch's deduplicated rows of that lot.                      *)
C2_FullScopeSupersession ==
    Persisted =>
        \A lot \in BatchLots :
            ScopeRows(deliveries, lot, exporter_name)
                = {r \in Range(delivery_df) : r.lot_number = lot}

(* C3 as stated. Key replacement: a stored key with value v1 that the      *)
(* persisted batch gives the value v2 is stored with v2 afterwards, and    *)
(* the farmer's total has changed by exactly v2 - v1.                      *)
C3_KeyReplacementAsStated ==
    Persisted =>
        \A r \in Range(delivery_df), q \in DOMAIN before.deliveries :
            DedupKey(q) = DedupKey(r) =>
                /\ RowsWithKey(deliveries, DedupKey(r)) = {r}
                /\ LedgerTotal(deliveries, r.farmer_id)
                     - LedgerTotal(before.deliveries, r.farmer_id)
                   = r.delivered_kg - q.delivered_kg

(* The farmer's stored rows under other keys than k are the same in both tables. *)
OtherRowsSame(t, u, k) ==
    \A r \in (DOMAIN t) \cup (DOMAIN u) :
        (r.farmer_id = k[3] /\ << r.lot_number, r.exporter_name, r.farmer_id >> # k)
            => /\ r \in DOMAIN t
               /\ r \in DOMAIN u
               /\ t[r] = u[r]

(* C3 amended. A stored key with value v1 that the deduplicated batch      *)
(* gives the value v2 is stored afterwards exactly once, with v2; and when *)
(* the submission leaves the farmer's rows under other keys as they were,  *)
(* the farmer's total has changed by exactly v2 - v1.                      *)
C3_KeyReplacement ==
    Persisted =>
        \A r \in Range(delivery_df), q \in DOMAIN before.deliveries :
            DedupKey(q) = DedupKey(r) =>
                /\ RowsWithKey(deliveries, DedupKey(r)) = {r}
                /\ CopiesWithKey(deliveries, DedupKey(r)) = 1
                /\ OtherRowsSame(before.deliveries, deliveries, DedupKey(r)) =>
                      LedgerTotal(deliveries, r.farmer_id)
                        - LedgerTotal(before.deliveries, r.farmer_id)
                      = r.delivered_kg - q.delivered_kg

(* A stored value was revised by a later batch. *)
C3_Witness ==
    /\ Persisted
    /\ \E r \in Range(delivery_df), q \in DOMAIN before.deliveries :
          /\ DedupKey(q) = DedupKey(r)
          /\ q.delivered_kg # r.delivered_kg
          /\ q.delivered_kg > 0
          /\ OtherRowsSame(before.deliveries, deliveries, DedupKey(r))

(* Area of a registered farmer, from the register as read. *)
AreaOf(id) ==
    LET i == CHOOSE j \in 1..Len(farmers_raw) : NormalizeFarmerId(farmers_raw[j].farmer_id) = id
    IN farmers_raw[i].area_ha

(* Kilograms the batch itself declares for a farmer. *)
BatchTotal(id) ==
    SeqSum([i \in 1..Len(delivery_df) |->
              IF delivery_df[i].farmer_id = id THEN delivery_df[i].delivered_kg ELSE 0])

BatchFarmers == {delivery_df[i].farmer_id : i \in 1..Len(delivery_df)}

(* The batch against the ledger t: every farmer registered, none above     *)
(* 100% of the quota.                                                      *)
PassesValidation(t) ==
    \A id \in BatchFarmers :
        /\ id \in RegisteredIds
        /\ LedgerTotal(t, id) * 100 <= 100 * (AreaOf(id) * QUOTA_PER_HA)

(* C4. The approvals table is changed, other than by the administrative    *)
(* wipe, only by appending one row, and only by an execution started by the PDF *)
(* button, which persisted and assessed the batch first and found, on the  *)
(* ledger as it then stands, no unknown farmer and no farmer above 100% of *)
(* quota; the appended row names that batch.                               *)
C4_ApprovalOnlyWhenValid ==
    (approvals # before.approvals /\ outcome # "cleared") =>
        /\ trigger = "button"
        /\ outcome = "approved"
        /\ stage = << "Received", "Normalized", "Persisted", "Assessed", "Approved" >>
        /\ Len(approvals) = Len(before.approvals) + 1
        /\ SubSeq(approvals, 1, Len(before.approvals)) = before.approvals
        /\ approvals[Len(approvals)].exporter_name = exporter_name
        /\ Range(approvals[Len(approvals)].lot_number) = BatchLots
        /\ PassesValidation(deliveries)

(* An approval row was appended for a batch on a ledger holding other rows. *)
C4_Witness ==
    /\ approvals # before.approvals
    /\ \E r \in DOMAIN deliveries : r \notin Range(delivery_df)

(* C5 as stated. Global approval predicate: an assessed submission is      *)
(* approved exactly when no farmer is unknown and no assessment has the    *)
(* status EXCEEDED.                                                        *)
C5_GlobalApprovalPredicate ==
    Persisted =>
        ( outcome = "approved"
            <=> /\ unknown_farmers = << >>
                /\ \A i \in 1..Len(merged_df) : merged_df[i].quota_status # "EXCEEDED" )

(* C6. Quota consumption is farmer-global and live: the assessed farmers   *)
(* are the registered farmers of the batch, the delivered_kg of each is    *)
(* the sum over all its rows of the ledger as it stands after the batch    *)
(* was persisted, and a farmer whose total is above its quota blocks the   *)
(* approval.                                                               *)
C6_FarmerGlobalLiveTotals ==
    Persisted =>
        /\ {merged_df[i].farmer_id : i \in 1..Len(merged_df)} = BatchFarmers \cap RegisteredIds
        /\ \A i \in 1..Len(merged_df) :
              /\ merged_df[i].delivered_kg = LedgerTotal(deliveries, merged_df[i].farmer_id)
              /\ LedgerTotal(deliveries, merged_df[i].farmer_id)
                    > AreaOf(merged_df[i].farmer_id) * QUOTA_PER_HA
                 => outcome = "rejected"

(* A batch within quota on its own is rejected for deliveries stored under *)
(* other scopes.                                                           *)
C6_Witness ==
    /\ outcome = "rejected"
    /\ unknown_farmers = << >>
    /\ \E i \in 1..Len(merged_df) :
          /\ merged_df[i].max_quota_kg > 0
          /\ BatchTotal(merged_df[i].farmer_id) <= merged_df[i].max_quota_kg
          /\ merged_df[i].delivered_kg > merged_df[i].max_quota_kg
    /\ \A i \in 1..Len(merged_df) :
          BatchTotal(merged_df[i].farmer_id) <= merged_df[i].max_quota_kg

(* C7. Unknown farmer blocks approval but persists data: when an execution *)
(* persisted a batch with a row of an unregistered farmer, the file is not *)
(* approved, the id is listed among the unknown farmers, and the row is    *)
(* stored and counted in the ledger aggregate.                             *)
C7_UnknownFarmerPersisted ==
    Persisted =>
        \A r \in Range(delivery_df) :
            r.farmer_id \notin RegisteredIds =>
                /\ outcome = "rejected"
                /\ r.farmer_id \in Range(unknown_farmers)
                /\ r \in DOMAIN deliveries
                /\ r.farmer_id \in DOMAIN total_df
                /\ total_df[r.farmer_id] >= r.delivered_kg
                /\ total_df[r.farmer_id] = LedgerTotal(deliveries, r.farmer_id)

(* A batch with an unregistered farmer was persisted and rejected. *)
C7_Witness ==
    /\ outcome = "rejected"
    /\ \E r \in Range(delivery_df) :
          /\ r.farmer_id \notin RegisteredIds
          /\ r.delivered_kg > 0
          /\ r \in DOMAIN deliveries

(* C8 as stated. The replace-scope-then-insert mutation is all-or-nothing: *)
(* an execution stopped between the two store calls leaves the ledger as   *)
(* it was before the submission.                                           *)
C8_AllOrNothing ==
    outcome = "store_error" => deliveries = before.deliveries

(* C9. Schema failure precedes any mutation: an execution on a file that   *)
(* lacks a required column (and in which the administrator does not wipe   *)
(* the tables) ends in the schema error, never in the approved outcome,    *)
(* with both tables as it found them.                                      *)
C9_SchemaFailureNoMutation ==
    ( /\ delivery_file.present
      /\ exporter_name # ""
      /\ ~(FullHeader \subseteq delivery_file.columns)
      /\ outcome # "cleared" )
    => /\ outcome = "schema_error"
       /\ deliveries = before.deliveries
       /\ approvals = before.approvals

(* A file lacking a column was rejected while the ledger held rows. *)
C9_Witness ==
    /\ outcome = "schema_error"
    /\ deliveries # EmptyTable
    /\ trigger = "upload"

(* C10. Status classification: for an assessed farmer with a positive      *)
(* quota of area_ha * 800, the status is OK up to and including 80%,       *)
(* Warning above 80% up to and including 100%, EXCEEDED above 100%.        *)
C10_StatusClassification ==
    Persisted =>
        \A i \in 1..Len(merged_df) :
            LET kg == merged_df[i].delivered_kg
                mx == merged_df[i].max_quota_kg
            IN /\ mx = AreaOf(merged_df[i].farmer_id) * 800
               /\ mx > 0 =>
                    /\ merged_df[i].quota_status = "OK" <=> kg * 100 <= 80 * mx
                    /\ merged_df[i].quota_status = "Warning"
                          <=> (80 * mx < kg * 100 /\ kg * 100 <= 100 * mx)
                    /\ merged_df[i].quota_status = "EXCEEDED" <=> kg > mx

(* A farmer at exactly 100% of a positive quota was classified. *)
C10_Witness ==
    /\ Persisted
    /\ \E i \in 1..Len(merged_df) :
          /\ merged_df[i].max_quota_kg > 0
          /\ merged_df[i].delivered_kg = merged_df[i].max_quota_kg

(* A farmer at exactly 80% of a positive quota was classified. *)
C10_WitnessEighty ==
    /\ Persisted
    /\ \E i \in 1..Len(merged_df) :
          /\ merged_df[i].max_quota_kg > 0
          /\ merged_df[i].delivered_kg * 100 = 80 * merged_df[i].max_quota_kg

(* The last execution had a batch to persist and did not stop between the  *)
(* two store calls nor wipe the tables.                                    *)
ReachesAssessment ==
    /\ outcome \notin {"store_error", "cleared"}
    /\ delivery_df # << >>
    /\ TruthyLot(delivery_df[1].lot_number)

(* C11. Zero-area farmer: when a registered farmer of the batch has        *)
(* area_ha = 0 and a positive ledger total, the assessment completes (no   *)
(* division fault), the farmer's status is EXCEEDED, the farmer is listed  *)
(* among the exceeded rows, and the batch is not approved.                 *)
C11_ZeroAreaFarmer ==
    ReachesAssessment =>
        \A id \in BatchFarmers \cap RegisteredIds :
            (AreaOf(id) = 0 /\ LedgerTotal(deliveries, id) > 0) =>
                /\ outcome = "rejected"
                /\ \E i \in 1..Len(merged_df) :
                      /\ merged_df[i].farmer_id = id
                      /\ merged_df[i].max_quota_kg = 0
                      /\ merged_df[i].quota_status = "EXCEEDED"
                /\ \E i \in 1..Len(exceeded_df) : exceeded_df[i].farmer_id = id

(* A zero-area farmer with a positive total was assessed, alone in its     *)
(* batch.                                                                  *)
C11_Witness ==
    /\ ReachesAssessment
    /\ Len(merged_df) = 1
    /\ unknown_farmers = << >>
    /\ merged_df[1].area_ha = 0
    /\ merged_df[1].delivered_kg > 0

(* The rows of the uploaded sheet in input order, before deduplication. *)
SheetRows == StandardizeRows(delivery_file, exporter_name)

(* Index of the last row of the sheet with the natural key of row i. *)
LastWithKey(i) ==
    CHOOSE j \in 1..Len(SheetRows) :
        /\ DedupKey(SheetRows[j]) = DedupKey(SheetRows[i])
        /\ \A k \in (j + 1)..Len(SheetRows) : DedupKey(SheetRows[k]) # DedupKey(SheetRows[i])

(* C12. Dedup tie-break: after an execution that persisted a batch, every  *)
(* natural key of the sheet is stored exactly once, with the value of the  *)
(* last row of the sheet that has this key; this holds for the keys that   *)
(* occur once as well as for those that occur several times.               *)
C12_DedupTieBreak ==
    Persisted =>
        \A i \in 1..Len(SheetRows) :
            /\ RowsWithKey(deliveries, DedupKey(SheetRows[i])) = {SheetRows[LastWithKey(i)]}
            /\ CopiesWithKey(deliveries, DedupKey(SheetRows[i])) = 1
            /\ Cardinality({j \in 1..Len(delivery_df) :
                               DedupKey(delivery_df[j]) = DedupKey(SheetRows[i])}) = 1

(* A sheet with two rows of one key and different weights was persisted. *)
C12_Witness ==
    /\ Persisted
    /\ \E i, j \in 1..Len(SheetRows) :
          /\ i < j
          /\ DedupKey(SheetRows[i]) = DedupKey(SheetRows[j])
          /\ SheetRows[i].delivered_kg # SheetRows[j].delivered_kg

(* C13. Ledger key uniqueness: in every reachable state the deliveries     *)
(* table holds at most one row, stored once, per (lot_number,              *)
(* exporter_name, farmer_id).                                              *)
C13_LedgerKeyUniqueness ==
    \A r \in DOMAIN deliveries :
        /\ deliveries[r] = 1
        /\ \A q \in DOMAIN deliveries : PrimaryKey(q) = PrimaryKey(r) => q = r

(* A batch of two lots was stored again over its own rows, one of them     *)
(* outside the scope that the execution deleted.                           *)
C13_Witness ==
    /\ Persisted
    /\ Cardinality(BatchLots) = 2
    /\ \E r \in Range(delivery_df) :
          /\ r.lot_number # delivery_df[1].lot_number
          /\ \E q \in DOMAIN before.deliveries : PrimaryKey(q) = PrimaryKey(r)

(* The sequence s is an initial part of the sequence t. *)
IsPrefix(s, t) == Len(s) <= Len(t) /\ SubSeq(t, 1, Len(s)) = s

(* C14. The approval log is append-only: in every step other than the      *)
(* administrative wipe, every approval row stays where it is, unchanged,   *)
(* the log grows by at most one row, and it grows only in an execution     *)
(* started by the PDF button; uploads, resubmissions, store failures and   *)
(* refused admin attempts leave the approvals table as it is.              *)
C14_ApprovalsAppendOnly ==
    [][ outcome' # "cleared" =>
            /\ IsPrefix(approvals, approvals')
            /\ Len(approvals') <= Len(approvals) + 1
            /\ trigger' # "button" => approvals' = approvals ]_vars

(* A second approval row was appended behind an existing one, for another  *)
(* batch.                                                                  *)
C14_Witness ==
    /\ trigger = "button"
    /\ Len(approvals) = 2
    /\ Len(before.approvals) = 1
    /\ approvals[1] # approvals[2]

(* A new batch was uploaded while the log held a row. *)
C14_WitnessUpload ==
    /\ trigger = "upload"
    /\ Persisted
    /\ approvals # << >>
    /\ approvals = before.approvals

(* The ledger total of a registered farmer is above 100% of its quota. *)
AboveQuota(t, id) == LedgerTotal(t, id) > AreaOf(id) * QUOTA_PER_HA

(* The log held, before the last execution, an approval of exactly the     *)
(* scope (lot, exporter).                                                  *)
ApprovedBefore(lot, exporter) ==
    \E k \in 1..Len(before.approvals) :
        /\ before.approvals[k].exporter_name = exporter
        /\ before.approvals[k].lot_number = << lot >>

(* C15. Rejected resubmission of a previously approved scope: when a batch *)
(* of the single scope (L, E) is uploaded after a batch of that scope was  *)
(* approved and recorded, and a registered farmer of the new batch then    *)
(* stands above 100% of quota, the ledger rows of (L, E) are exactly the   *)
(* rows of the new batch, every such farmer has the status EXCEEDED on its *)
(* live total, the file is rejected and the approval log is as it was.     *)
C15_RejectedResubmission ==
    ( /\ trigger = "upload"
      /\ Persisted
      /\ \E lot \in BatchLots : BatchLots = {lot} /\ ApprovedBefore(lot, exporter_name)
      /\ \E id \in BatchFarmers \cap RegisteredIds : AboveQuota(deliveries, id) )
    => /\ \A lot \in BatchLots :
             ScopeRows(deliveries, lot, exporter_name) = Range(delivery_df)
       /\ \A id \in BatchFarmers \cap RegisteredIds :
             AboveQuota(deliveries, id) =>
                \E i \in 1..Len(merged_df) :
                    /\ merged_df[i].farmer_id = id
                    /\ merged_df[i].delivered_kg = LedgerTotal(deliveries, id)
                    /\ merged_df[i].quota_status = "EXCEEDED"
       /\ outcome = "rejected"
       /\ approvals = before.approvals

(* The revised batch changed a stored value of the approved scope and      *)
(* dropped nothing but brought a farmer above quota.                       *)
C15_Witness ==
    /\ trigger = "upload"
    /\ Persisted
    /\ \E lot \in BatchLots : BatchLots = {lot} /\ ApprovedBefore(lot, exporter_name)
    /\ \E id \in BatchFarmers \cap RegisteredIds : AboveQuota(deliveries, id)
    /\ \E r \in Range(delivery_df), q \in DOMAIN before.deliveries :
          PrimaryKey(q) = PrimaryKey(r) /\ q.delivered_kg # r.delivered_kg

(* The revised batch no longer names a farmer of the approved batch. *)
C15_WitnessDropped ==
    /\ trigger = "upload"
    /\ Persisted
    /\ \E lot \in BatchLots : BatchLots = {lot} /\ ApprovedBefore(lot, exporter_name)
    /\ \E id \in BatchFarmers \cap RegisteredIds : AboveQuota(deliveries, id)
    /\ \E q \in DOMAIN before.deliveries :
          /\ q.exporter_name = exporter_name
          /\ q.lot_number \in BatchLots
          /\ q.farmer_id \notin BatchFarmers

(* The last execution was started from the admin panel. *)
AdminExecution == trigger \in {"admin", "clear_button"}

(* C16. The administrative wipe is gated by two secrets and the button:    *)
(* an execution wipes exactly when it was started by the clear button with *)
(* the admin password "123" and the wipe password "321" in the two fields; *)
(* it then leaves both tables empty.  An execution started from the admin  *)
(* panel with a wrong or missing first or second secret, or without the    *)
(* button, leaves the approvals table as it was and deletes no delivery    *)
(* row (the rows of the batch in the upload widget are stored again by the *)
(* same execution, as in any other re-execution).                          *)
C16_WipeGatedByTwoSecrets ==
    /\ outcome = "cleared" <=>
          (trigger = "clear_button" /\ password = "123" /\ wipe_password = "321")
    /\ outcome = "cleared" => (deliveries = EmptyTable /\ approvals = << >>)
    /\ (AdminExecution /\ outcome # "cleared") =>
          /\ approvals = before.approvals
          /\ \A q \in DOMAIN before.deliveries :
                \/ q \in DOMAIN deliveries
                \/ \E r \in Range(delivery_df) : PrimaryKey(r) = PrimaryKey(q)
          /\ Persisted => \A r \in Range(delivery_df) : r \in DOMAIN deliveries
    /\ (AdminExecution /\ outcome # "cleared" /\ before.deliveries # EmptyTable) =>
          deliveries # EmptyTable

(* Both secrets were given, the button pressed, and both tables held rows. *)
C16_Witness ==
    /\ outcome = "cleared"
    /\ before.deliveries # EmptyTable
    /\ before.approvals # << >>

(* The first secret was right and the second wrong while both tables held  *)
(* rows.                                                                   *)
C16_WitnessRefused ==
    /\ trigger = "admin"
    /\ password = "123"
    /\ wipe_password \notin {"", "321"}
    /\ before.deliveries # EmptyTable
    /\ before.approvals # << >>

(* The stages of a submission, in order, up to the decision. *)
StageChain == << "Received", "Normalized", "Persisted", "Assessed" >>

(* C17. Stages of a submission: the stages an execution went through are   *)
(* an initial part of Received, Normalized, Persisted, Assessed followed   *)
(* by one of Approved, Rejected; an execution that reached Persisted went  *)
(* on to Assessed and ended in exactly one of Approved, Rejected; the      *)
(* totals it assessed are those of the ledger with its batch stored; and   *)
(* after a Rejected end the rows of the batch are still stored.            *)
C17_SubmissionStages ==
    /\ \/ IsPrefix(stage, StageChain \o << "Approved" >>)
       \/ IsPrefix(stage, StageChain \o << "Rejected" >>)
    /\ (\E i \in 1..Len(stage) : stage[i] = "Persisted") =>
          /\ Len(stage) = 5
          /\ stage[4] = "Assessed"
          /\ stage[5] \in {"Approved", "Rejected"}
          /\ stage[5] = "Approved" <=> FileApproved(unknown_farmers, exceeded_df)
          /\ outcome # "cleared" =>
                /\ outcome = (IF stage[5] = "Approved" THEN "approved" ELSE "rejected")
                /\ \A r \in Range(delivery_df) : r \in DOMAIN deliveries
                /\ \A id \in DOMAIN total_df : total_df[id] = LedgerTotal(deliveries, id)
                /\ \A r \in Range(delivery_df) :
                      /\ r.farmer_id \in DOMAIN total_df
                      /\ total_df[r.farmer_id] >= r.delivered_kg
    /\ Persisted => (\E i \in 1..Len(stage) : stage[i] = "Persisted")

(* A submission was rejected for a farmer above quota and its rows, with a *)
(* positive weight, are stored.                                            *)
C17_Witness ==
    /\ outcome = "rejected"
    /\ stage = StageChain \o << "Rejected" >>
    /\ unknown_farmers = << >>
    /\ exceeded_df # << >>
    /\ \E r \in Range(delivery_df) : r.delivered_kg > 0 /\ r \in DOMAIN deliveries

(* The last execution had a sheet with the required columns and at least   *)
(* one row, and its scope was empty: no exporter name, or a zero / empty   *)
(* lot number in the row the scope is taken from.                          *)
EmptyScope ==
    /\ delivery_file.present
    /\ FullHeader \subseteq delivery_file.columns
    /\ delivery_file.rows # << >>
    /\ \/ exporter_name = ""
       \/ delivery_file.rows[1].lot = 0

(* C18 as stated. A submission with an empty scope changes neither table   *)
(* and ends in a reported rejection, not in an approval and not in an      *)
(* unhandled fault.                                                        *)
C18_EmptyScopeRejected ==
    (EmptyScope /\ outcome # "cleared") =>
        /\ deliveries = before.deliveries
        /\ approvals = before.approvals
        /\ outcome \in {"missing_input", "rejected"}

(* The row r is outside every scope (lot, exporter) of the last batch. *)
OutsideBatchScopes(r) ==
    r.exporter_name # exporter_name \/ r.lot_number \notin BatchLots

(* C19. Scope isolation: an execution other than the administrative wipe   *)
(* leaves every ledger row of another exporter, or of a lot number that    *)
(* does not occur in its batch, as it was, and adds no such row; and an    *)
(* execution started by the PDF button on a ledger that already holds the  *)
(* rows of its batch leaves the whole deliveries table as it was.          *)
C19_ScopeIsolation ==
    outcome # "cleared" =>
        /\ \A r \in (DOMAIN deliveries) \cup (DOMAIN before.deliveries) :
              OutsideBatchScopes(r) =>
                  /\ r \in DOMAIN deliveries
                  /\ r \in DOMAIN before.deliveries
                  /\ deliveries[r] = before.deliveries[r]
        /\ ( /\ trigger = "button"
             /\ \A r \in Range(delivery_df) : r \in DOMAIN before.deliveries )
           => deliveries = before.deliveries

(* An upload replaced a stored value while the ledger held a row of        *)
(* another lot of the same exporter.                                       *)
C19_Witness ==
    /\ trigger = "upload"
    /\ Persisted
    /\ deliveries # before.deliveries
    /\ \E q \in DOMAIN before.deliveries : q \notin DOMAIN deliveries
    /\ \E r \in DOMAIN before.deliveries :
          r.exporter_name = exporter_name /\ r.lot_number \notin BatchLots

(* An upload for one exporter while the ledger held a row of the same lot  *)
(* number from the other exporter.                                         *)
C19_WitnessOtherExporter ==
    /\ trigger = "upload"
    /\ Persisted
    /\ \E r \in DOMAIN before.deliveries :
          r.exporter_name # exporter_name /\ r.lot_number \in BatchLots

(* An approval was recorded and the deliveries table held rows. *)
C19_WitnessApproval ==
    /\ trigger = "button"
    /\ approvals # before.approvals
    /\ deliveries = before.deliveries
    /\ deliveries # EmptyTable

(* Canonical form of an identifier as the claim defines it: lower-cased,   *)
(* surrounding whitespace trimmed.                                         *)
Canonical(s) == StrStrip(StrLower(s))

(* The stored rows of the last exporter whose lot is lot and whose farmer  *)
(* id has the canonical form id.                                           *)
StoredFor(lot, id) ==
    {q \in DOMAIN deliveries :
        /\ q.lot_number = lot
        /\ q.exporter_name = exporter_name
        /\ Canonical(q.farmer_id) = id}

(* C20. Farmer ids are compared in canonical form: after an execution that *)
(* persisted a sheet, the rows of the sheet whose lot is the same and      *)
(* whose farmer ids differ at most by case or surrounding whitespace are   *)
(* stored as one row, in canonical form, with the weight of the last of    *)
(* them; and a row whose id differs from a register entry at most by case  *)
(* or surrounding whitespace is assessed as that farmer and is not listed  *)
(* as unknown, while a row that matches no register entry is listed.       *)
C20_CanonicalFarmerIds ==
    Persisted =>
        \A i \in 1..Len(delivery_file.rows) :
            LET row == delivery_file.rows[i]
                id == Canonical(row.farmer_id)
                same == {j \in 1..Len(delivery_file.rows) :
                            /\ delivery_file.rows[j].lot = row.lot
                            /\ Canonical(delivery_file.rows[j].farmer_id) = id}
                last == CHOOSE j \in same : \A k \in same : k <= j
                registered == \E k \in 1..Len(farmers_raw) :
                                 Canonical(farmers_raw[k].farmer_id) = id
            IN /\ Cardinality(StoredFor(row.lot, id)) = 1
               /\ \A q \in StoredFor(row.lot, id) :
                     /\ q.farmer_id = id
                     /\ q.delivered_kg = delivery_file.rows[last].poids_net
                     /\ deliveries[q] = 1
               /\ registered =>
                     /\ \A k \in 1..Len(unknown_farmers) : Canonical(unknown_farmers[k]) # id
                     /\ \E m \in 1..Len(merged_df) : merged_df[m].farmer_id = id
               /\ ~registered => \E k \in 1..Len(unknown_farmers) : unknown_farmers[k] = id

(* A sheet with the ids "a" and " A" under one lot was persisted, the      *)
(* register spelling the farmer "A".                                       *)
C20_Witness ==
    /\ Persisted
    /\ \E i, j \in 1..Len(delivery_file.rows) :
          /\ i < j
          /\ delivery_file.rows[i].lot = delivery_file.rows[j].lot
          /\ delivery_file.rows[i].farmer_id # delivery_file.rows[j].farmer_id
          /\ Canonical(delivery_file.rows[i].farmer_id) = Canonical(delivery_file.rows[j].farmer_id)
          /\ \E k \in 1..Len(farmers_raw) :
                /\ farmers_raw[k].farmer_id # delivery_file.rows[i].farmer_id
                /\ farmers_raw[k].farmer_id # delivery_file.rows[j].farmer_id
                /\ Canonical(farmers_raw[k].farmer_id) = Canonical(delivery_file.rows[i].farmer_id)

====
